---- MODULE Spec2Model ----
(***************************************************************************)
(* A model of nutt, a terminal mail client on top of notmuch.              *)
(*                                                                         *)
(*   src/src/message.rs  the thread parser and the body/attachment walk    *)
(*   src/src/main.rs     the flattener (Messages), the index and view      *)
(*                       loops and the main state dispatch                 *)
(*                                                                         *)
(* Strings are sequences of one-character strings, so that truncation,     *)
(* prefixing and line counting are computed as the code computes them.     *)
(* Spec is the application (main.rs: main and the loops it calls).         *)
(* SpecPure applies the pure functions to inputs drawn from bounded sets.  *)
(***************************************************************************)
EXTENDS Integers, Sequences, FiniteSets, TLC

\* ------------------------------------------------------------------ bounds
\* Largest number of messages in a generated thread forest (SpecPure).
MaxNodes == 3
\* Largest number of rows a search returns in the application (Spec).
MaxRows == 3
\* Largest terminal height the environment reports (Spec).
MaxHeight == 7
\* Longest search string typed in search-edit mode (Spec).
MaxInput == 1
\* How far below 2^16 a wrapped selection is followed (Spec).
MaxWrapSteps == 1
\* Parts of a message body, at most
MaxParts == 3
\* Items the terminal hands to the keyboard thread, at most
MaxKeys == 3
\* Ticks the ticker thread sends, at most
MaxTicks == 2

\* ------------------------------------------------------------ constants
\* u16 arithmetic (Messages::selected, scroll, view_height) is modulo 2^16.
U16 == 65536
\* let title_len = 45;
title_len == 45
\* f.size().height - 5 in the index draw.
index_chrome == 5
\* The headers view_selected renders: From, To, Date, Attachments, Subject.
headers_count == 5

\* ------------------------------------------------------------- strings
Min(a, b) == IF a < b THEN a ELSE b
Max(a, b) == IF a > b THEN a ELSE b

\* .chars().take(n).collect::<String>()
Take(s, n) == SubSeq(s, 1, Min(n, Len(s)))

\* n copies of the character c
Repeat(c, n) == [i \in 1..n |-> c]

\* str::lines().count(): the lines end at "\n"; a last line without one counts.
LinesCount(s) ==
    Cardinality({i \in 1..Len(s) : s[i] = "\n"})
        + (IF Len(s) > 0 /\ s[Len(s)] /= "\n" THEN 1 ELSE 0)

S_Hi == <<"H", "i">>
S_ReHi == <<"R", "e", ":", " ", "H", "i">>
\* A subject longer than title_len
S_Long == Repeat("x", title_len + 1)
S_NoSubject == <<"<", "n", "o", " ", "s", "u", "b", "j", "e", "c", "t", ">">>
S_TagInbox == <<"t", "a", "g", ":", "i", "n", "b", "o", "x">>

\* ---------------------------------------------------------- data model
\* Option<String> filename of a Body
NoFile == [some |-> FALSE]
SomeFile(f) == [some |-> TRUE, v |-> f]

\* Body.content: None, Some(Content::Str), Some(Content::Array)
CNone == [kind |-> "None"]
CStr(s) == [kind |-> "Str", s |-> s]
CArray(bs) == [kind |-> "Array", bs |-> bs]

\* struct Body
Body(id, ct, content, filename) ==
    [id |-> id, content_type |-> ct, content |-> content, filename |-> filename]

\* A Subject header that is there, or not
Subj(s) == [some |-> TRUE, v |-> s]
NoSubj == [some |-> FALSE]

\* headers: HashMap<String, String>; only Subject is read by the flattener.
Headers(subj) ==
    IF subj.some THEN [h \in {"Subject"} |-> subj.v] ELSE [h \in {} |-> <<>>]

\* struct Message. depth and replys are #[serde(skip)]: a deserialized message
\* has depth 0 and no replys.
Message(id, subj, body) ==
    [id |-> id, headers |-> Headers(subj), body |-> body,
     date_relative |-> "today", tags |-> <<"inbox">>,
     depth |-> 0, replys |-> <<>>]

\* enum Node
NodeMsg(m) == [tag |-> "Msg", msg |-> m]
NodeChildren(childs) == [tag |-> "Children", childs |-> childs]

\* ------------------------------------------------------ thread parser
ParseOk(messages) == [err |-> FALSE, messages |-> messages]
ParseErr(messages) == [err |-> TRUE, messages |-> messages]

RECURSIVE parse_thread(_, _, _)
RECURSIVE parse_replies(_, _, _)
RECURSIVE parse_childs(_, _, _)

\* for child in childs { parse_thread(&child, depth + 1, messages)?; }
parse_childs(childs, depth, messages) ==
    IF childs = <<>> THEN ParseOk(messages)
    ELSE LET r == parse_thread(Head(childs), depth + 1, messages)
         IN IF r.err THEN r ELSE parse_childs(Tail(childs), depth, r.messages)

\* for reply in thread.iter().skip(1) { match reply { Children => ..., _ => bail } }
parse_replies(replies, depth, messages) ==
    IF replies = <<>> THEN ParseOk(messages)
    ELSE IF Head(replies).tag = "Children"
    THEN LET r == parse_childs(Head(replies).childs, depth, messages)
         IN IF r.err THEN r ELSE parse_replies(Tail(replies), depth, r.messages)
    ELSE ParseErr(messages)

\* The first node must be a message: it is pushed onto the one flat vector
\* `messages` with its depth; every later node must be a children array.
parse_thread(thread, depth, messages) ==
    IF Len(thread) > 0 /\ thread[1].tag = "Msg"
    THEN LET message == [thread[1].msg EXCEPT !.depth = depth]
         IN parse_replies(Tail(thread), depth, Append(messages, message))
    ELSE ParseErr(messages)

RECURSIVE parse_threads(_, _)
\* for thread in threads.iter() { parse_thread(thread, 0, &mut result)?; }
parse_threads(threads, result) ==
    IF threads = <<>> THEN ParseOk(result)
    ELSE LET r == parse_thread(Head(threads), 0, result)
         IN IF r.err THEN r ELSE parse_threads(Tail(threads), r.messages)

RECURSIVE parse_threadset(_, _)
\* for threads in threadset.iter() { ... }
parse_threadset(threadset, result) ==
    IF threadset = <<>> THEN ParseOk(result)
    ELSE LET r == parse_threads(Head(threadset), result)
         IN IF r.err THEN r ELSE parse_threadset(Tail(threadset), r.messages)

\* What `notmuch show --format=json` gave back: the command could not be run
\* ("spawn_fail"), its output did not deserialize ("bad_json"), or a threadset.
OutSpawnFail == [kind |-> "spawn_fail"]
OutBadJson == [kind |-> "bad_json"]
OutJson(threadset) == [kind |-> "json", threadset |-> threadset]

\* parse_messages, had it handed the partly filled vector back with the Err
parse_messages_partial(output) ==
    IF output.kind /= "json" THEN [err |-> TRUE, messages |-> <<>>]
    ELSE parse_threadset(output.threadset, <<>>)

\* parse_messages, given the output of the search command. An Err carries no
\* messages: the partly filled vector is dropped.
parse_messages(output) ==
    IF output.kind /= "json" THEN [err |-> TRUE, messages |-> <<>>]
    ELSE LET r == parse_threadset(output.threadset, <<>>)
         IN IF r.err THEN [err |-> TRUE, messages |-> <<>>] ELSE r

\* ----------------------------------------------------------- flattener
\* impl Display for Tags: "[" + the tags joined by "," + "]"
RECURSIVE TagsJoin(_)
TagsJoin(tags) ==
    IF tags = <<>> THEN <<>>
    ELSE IF Len(tags) = 1 THEN <<tags[1]>>
    ELSE <<tags[1], ",">> \o TagsJoin(Tail(tags))

Tags(tags) == <<"[">> \o TagsJoin(tags) \o <<"]">>

\* m.headers.get("Subject").unwrap_or("<no subject>")
Subject(m) ==
    IF "Subject" \in DOMAIN m.headers THEN m.headers["Subject"] ELSE S_NoSubject

\* format!("{}{}", prefix, subject).chars().take(title_len)
Title(m, prefix) == Take(prefix \o Subject(m), title_len)

\* format!(" . {: >19}  {1:-<2$}    {3}\n", date_relative, title, title_len, Tags):
\* the title is left-aligned and filled with '-' up to title_len.
RowLine(m, title) ==
    [date |-> m.date_relative,
     title |-> title \o Repeat("-", title_len - Len(title)),
     tags |-> Tags(m.tags)]

RECURSIVE build_messages_sibs_first(_, _)
\* A flattener that finishes the siblings before the replies.
build_messages_sibs_first(messages, prefix) ==
    IF messages = <<>> THEN <<>>
    ELSE LET m == Head(messages)
         IN <<(<<RowLine(m, Title(m, prefix)), m>>)>>
            \o build_messages_sibs_first(Tail(messages), prefix)
            \o build_messages_sibs_first(m.replys, prefix \o <<" ", " ">>)

RECURSIVE build_messages(_, _)
\* Messages::build_messages: for each message its row, then the rows of its
\* replys under a prefix two spaces longer, then the next message.
build_messages(messages, prefix) ==
    IF messages = <<>> THEN <<>>
    ELSE LET m == Head(messages)
         IN <<(<<RowLine(m, Title(m, prefix)), m>>)>>
            \o build_messages(m.replys, prefix \o <<" ", " ">>)
            \o build_messages(Tail(messages), prefix)

\* Messages::new
Messages_new(messages) == [list |-> build_messages(messages, <<>>), selected |-> 0]

\* ------------------------------------------- body / attachment extractor
\* enum Attachment
AttHtml(html) == [tag |-> "Html", html |-> html]
AttFile(id, filename, mime) ==
    [tag |-> "File", id |-> id, filename |-> filename, mime |-> mime]

\* Markup tokens of an HTML string; everything else is text.
HtmlTags == {"<p>", "</p>"}

\* What `lynx -stdin -dump` prints for an HTML input: the text without markup.
LynxDump(html) == SelectSeq(html, LAMBDA c : c \notin HtmlTags)

\* html_to_text: spawns lynx; `lynx` says whether the command can be run.
html_to_text(html, lynx) ==
    IF lynx = "ok" THEN [err |-> FALSE, text |-> LynxDump(html)]
    ELSE [err |-> TRUE, text |-> <<>>]

BodyErr(calls) == [err |-> TRUE, body |-> <<>>, attachments |-> <<>>, calls |-> calls]

RECURSIVE body_attachments(_, _)
RECURSIVE walk_bodys(_, _, _)

\* The walk over bodys, had it taken the filename of leaves only (a part with
\* parts of its own never becoming a File attachment)
walk_bodys_leaf_files(bodys, lynx, acc) ==
    IF bodys = <<>> THEN acc
    ELSE LET b == Head(bodys)
             a1 == CASE b.content.kind = "Str" ->
                          IF b.content_type = "text/html"
                          THEN [acc EXCEPT !.body_html = @ \o b.content.s]
                          ELSE [acc EXCEPT !.body = @ \o b.content.s]
                      [] b.content.kind = "Array" ->
                          LET r == body_attachments(b.content.bs, lynx)
                          IN IF r.err
                             THEN [acc EXCEPT !.err = TRUE, !.calls = @ + r.calls]
                             ELSE [acc EXCEPT !.body = @ \o r.body,
                                              !.attachments = @ \o r.attachments,
                                              !.calls = @ + r.calls]
                      [] OTHER -> acc
             a2 == IF ~a1.err /\ b.filename.some /\ b.content.kind /= "Array"
                   THEN [a1 EXCEPT !.attachments =
                            Append(@, AttFile(b.id, b.filename.v, b.content_type))]
                   ELSE a1
         IN IF a2.err THEN a2 ELSE walk_bodys(Tail(bodys), lynx, a2)

\* for b in bodys { ... }: acc holds body, body_html, attachments of this call
\* (each call of body_attachments has buffers of its own) and the number of
\* html_to_text calls made so far.
walk_bodys(bodys, lynx, acc) ==
    IF bodys = <<>> THEN acc
    ELSE LET b == Head(bodys)
             a1 == CASE b.content.kind = "Str" ->
                          IF b.content_type = "text/html"
                          THEN [acc EXCEPT !.body_html = @ \o b.content.s]
                          ELSE [acc EXCEPT !.body = @ \o b.content.s]
                      [] b.content.kind = "Array" ->
                          LET r == body_attachments(b.content.bs, lynx)
                          IN IF r.err
                             THEN [acc EXCEPT !.err = TRUE, !.calls = @ + r.calls]
                             ELSE [acc EXCEPT !.body = @ \o r.body,
                                              !.attachments = @ \o r.attachments,
                                              !.calls = @ + r.calls]
                      [] OTHER -> acc
             a2 == IF ~a1.err /\ b.filename.some
                   THEN [a1 EXCEPT !.attachments =
                            Append(@, AttFile(b.id, b.filename.v, b.content_type))]
                   ELSE a1
         IN IF a2.err THEN a2 ELSE walk_bodys(Tail(bodys), lynx, a2)

\* body_attachments: the walk, then html_to_text when the body is empty, then
\* the Html attachment when this call gathered HTML.
body_attachments(bodys, lynx) ==
    LET w == walk_bodys(bodys, lynx,
                 [err |-> FALSE, body |-> <<>>, body_html |-> <<>>,
                  attachments |-> <<>>, calls |-> 0])
    IN IF w.err THEN BodyErr(w.calls)
       ELSE LET conv == IF w.body = <<>> THEN html_to_text(w.body_html, lynx)
                        ELSE [err |-> FALSE, text |-> w.body]
                calls == w.calls + (IF w.body = <<>> THEN 1 ELSE 0)
            IN IF conv.err THEN BodyErr(calls)
               ELSE [err |-> FALSE, body |-> conv.text,
                     attachments |-> IF w.body_html /= <<>>
                                     THEN Append(w.attachments, AttHtml(w.body_html))
                                     ELSE w.attachments,
                     calls |-> calls]

\* ------------------------------------------------- generated inputs
\* A forest of n messages as a parent array: parent[i] < i, 0 for a root; the
\* children of a node are ordered by their number.
ParentArrays(n) == {p \in [1..n -> 0..n] : \A i \in 1..n : p[i] < i}

RECURSIVE SortedSeq(_)
SortedSeq(S) ==
    IF S = {} THEN <<>>
    ELSE LET m == CHOOSE x \in S : \A y \in S : x <= y
         IN <<m>> \o SortedSeq(S \ {m})

ChildrenOf(p, i) == SortedSeq({j \in DOMAIN p : p[j] = i})

SubjectList == <<Subj(S_Hi), Subj(S_ReHi), Subj(S_Long), NoSubj>>
\* The subject of message i under subject scheme k
SubjectOf(i, k) == SubjectList[((i - 1 + k) % Len(SubjectList)) + 1]

\* A message body: one text/plain leaf of `lines` lines.
PlainBody(lines) == <<Body(1, "text/plain", CStr(Repeat("\n", lines)), NoFile)>>

RECURSIVE TreeOf(_, _, _, _)
\* Message i with its replys filled in and its depth set to its nesting level
TreeOf(p, k, i, depth) ==
    LET ch == ChildrenOf(p, i)
    IN [Message(i, SubjectOf(i, k), PlainBody(1)) EXCEPT
            !.depth = depth,
            !.replys = [c \in 1..Len(ch) |-> TreeOf(p, k, ch[c], depth + 1)]]

\* Vec<Message> with replys: the forest of parent array p
ForestOf(p, k) ==
    LET roots == ChildrenOf(p, 0)
    IN [r \in 1..Len(roots) |-> TreeOf(p, k, roots[r], 0)]

RECURSIVE ThreadOf(_, _, _, _, _)
\* The JSON thread of message i: [message, [thread of each reply]]. A message
\* without replies comes with an empty children array, or without one when
\* `bare`. At message badAt the children slot holds a bare message instead.
ThreadOf(p, k, i, bare, badAt) ==
    LET ch == ChildrenOf(p, i)
        msg == NodeMsg(Message(i, SubjectOf(i, k), PlainBody(1)))
    IN IF i = badAt THEN <<msg, msg>>
       ELSE IF ch = <<>> /\ bare THEN <<msg>>
       ELSE <<msg, NodeChildren([c \in 1..Len(ch) |->
                                    ThreadOf(p, k, ch[c], bare, badAt)])>>

\* Vec<Vec<Vec<Node>>>: one thread-set per root ("each"), or one thread-set
\* holding the threads of all roots ("one").
ThreadSetOf(p, k, group, bare, badAt) ==
    LET roots == ChildrenOf(p, 0)
        threads == [r \in 1..Len(roots) |-> ThreadOf(p, k, roots[r], bare, badAt)]
    IN IF group = "each" THEN [r \in 1..Len(roots) |-> <<threads[r]>>]
       ELSE <<threads>>

\* The nesting level of message i in parent array p
RECURSIVE Level(_, _)
Level(p, i) == IF p[i] = 0 THEN 0 ELSE 1 + Level(p, p[i])

\* i is a proper ancestor of j
RECURSIVE IsAncestor(_, _, _)
IsAncestor(p, i, j) == p[j] /= 0 /\ (p[j] = i \/ IsAncestor(p, i, p[j]))

\* The kinds of a body part without parts of its own: a text/plain leaf, a
\* text/plain leaf with empty content, a text/html leaf, a part without
\* content (an image)
LeafKinds == {"plain", "empty", "html", "none"}

S_Text == <<"t", "\n">>
S_Html == <<"<p>", "h", "\n", "</p>">>

\* The filename of part i
FileName(i) == <<"f", i>>

RECURSIVE PartOf(_, _, _, _)
\* Part i of the body tree of parent array p: a part with parts of its own is
\* a multipart/mixed branch, the others are of kind kinds[i]; the parts in
\* `named` carry a filename.
PartOf(p, kinds, named, i) ==
    LET ch == ChildrenOf(p, i)
        fname == IF i \in named THEN SomeFile(FileName(i)) ELSE NoFile
    IN IF ch /= <<>>
       THEN Body(i, "multipart/mixed",
                 CArray([c \in 1..Len(ch) |-> PartOf(p, kinds, named, ch[c])]), fname)
       ELSE CASE kinds[i] = "plain" -> Body(i, "text/plain", CStr(S_Text), fname)
              [] kinds[i] = "empty" -> Body(i, "text/plain", CStr(<<>>), fname)
              [] kinds[i] = "html" -> Body(i, "text/html", CStr(S_Html), fname)
              [] OTHER -> Body(i, "image/png", CNone, fname)

\* Vec<Body>: the body of a message
BodysOf(p, kinds, named) ==
    LET roots == ChildrenOf(p, 0)
    IN [r \in 1..Len(roots) |-> PartOf(p, kinds, named, roots[r])]

\* ================================================================ state
VARIABLES
    state,            \* App.state: Refresh, Index, View, _EditSubject, Compose, Exit
    list,             \* App.messages.list: the rows <<line, message>>
    selected,         \* App.messages.selected (u16)
    selected_att,     \* App.selected_att (isize)
    search_term,      \* App.search_term
    pc,               \* where main is: "main" (the dispatch), in the index loop
                      \* ("idx_draw", "idx_key", "idx_g"), in the view loop
                      \* ("view_draw", "view_key", "view_g"), or "done"
    exit,             \* "running", "ok" (main returned Ok), "error:<function>"
                      \* (main returned that function's Err), "panic:<place>"
    overflow_checks,  \* the build: TRUE panics on integer overflow, FALSE wraps
    is_input,         \* show_index: is_input
    input,            \* show_index: input
    scroll,           \* show_index / view_selected: scroll
    scroll_max,       \* show_index / view_selected: scroll_max
    view_height,      \* view_height of the latest draw of the running loop
    key,              \* the key the loop handled last, "" once drawn
    only_moves,       \* no key but j, Down, k, Up was read in this show_index
    atts,             \* view_selected: atts
    body_len,         \* view_selected: body_len
    p_in,             \* SpecPure: the input a pure function is applied to
    p_out,            \* SpecPure: its result
    stdin,            \* Events: what stdin.keys() is still to yield
    eof,              \* Events: stdin ends after that (else it blocks)
    chan,             \* Events: the mpsc channel, tx to rx
    rx,               \* Events: "none", "open", "closed" (RecvError), "dropped"
    kpc,              \* input thread: "read", "check_exit", "check_compose",
                      \* "store", "done" ("none": not spawned)
    kb_key,           \* input thread: the key of this iteration
    tpc,              \* tick thread: "load", "send", "done", "panicked"
    ticks,            \* ticks sent so far
    ignore_exit_key,  \* Events.ignore_exit_key
    ignore_compose_key, \* Events.ignore_compose_key
    exit_flag,        \* Events.exit
    keys_read,        \* the keys the input thread has read, in order
    received          \* the events Events::next has returned, in order

app_vars == <<state, list, selected, selected_att, search_term, pc, exit,
              overflow_checks, is_input, input, scroll, scroll_max, view_height,
              key, only_moves, atts, body_len>>
pure_vars == <<p_in, p_out>>
ev_vars == <<stdin, eof, chan, rx, kpc, kb_key, tpc, ticks, ignore_exit_key,
             ignore_compose_key, exit_flag, keys_read, received>>
vars == <<state, list, selected, selected_att, search_term, pc, exit,
          overflow_checks, is_input, input, scroll, scroll_max, view_height,
          key, only_moves, atts, body_len, p_in, p_out,
          stdin, eof, chan, rx, kpc, kb_key, tpc, ticks, ignore_exit_key,
          ignore_compose_key, exit_flag, keys_read, received>>

\* ---------------------------------------------------------- environment
\* Terminal heights f.size().height can report: 0, 4 (both below the index
\* chrome) and every height from the chrome up to MaxHeight.
Heights == {0, 4} \cup (index_chrome..MaxHeight)
\* The heights that leave the index at least one line
RoomyHeights == (index_chrome + 1)..MaxHeight

\* Keys read from stdin while the index is browsed. "a" stands for any
\* character without a binding; Up, which shares the arm of k, is left out.
BrowseKeys == {"j", "Down", "k", "g", "G", "q", "\n", "m", "l", "a"}
\* Keys read while the search string is edited.
InputKeys == {"\n", "Backspace", "Esc", "a", "Down"}
\* Keys read in the view.
ViewKeys == {"q", "i", "j", "k", "g", "G", "\n", "a"}

\* Bodies of the messages a search returns.
AppBody(i) ==
    CASE i % 4 = 1 -> PlainBody(1)
      [] i % 4 = 2 -> <<Body(1, "text/html", CStr(<<"<p>", "h", "\n", "</p>">>), NoFile)>>
      [] i % 4 = 3 -> <<Body(1, "multipart/mixed",
                            CArray(<<Body(2, "text/plain", CStr(Repeat("\n", MaxHeight)), NoFile),
                                     Body(3, "image/png", CNone, SomeFile("a.png"))>>),
                            NoFile),
                        Body(4, "application/pdf", CNone, SomeFile("b.pdf"))>>
      [] OTHER -> <<Body(1, "text/plain", CStr(Repeat("\n", 4)), NoFile),
                    Body(2, "image/png", CNone, SomeFile("c.png"))>>

\* k thread-sets of one message each
FlatOutput(k) ==
    OutJson([i \in 1..k |-> << <<NodeMsg(Message(i, Subj(S_Hi), AppBody(i))),
                                 NodeChildren(<<>>)>> >>])

\* One thread-set: a message "Hi" and one reply "Re: Hi"
HiThread ==
    OutJson(<< << <<NodeMsg(Message(1, Subj(S_Hi), AppBody(1))),
                    NodeChildren(<< <<NodeMsg(Message(2, Subj(S_ReHi), AppBody(3))),
                                      NodeChildren(<<>>)>> >>)>> >> >>)

\* A thread whose children slot holds a bare message
BadThread ==
    OutJson(<< << <<NodeMsg(Message(1, Subj(S_Hi), AppBody(1))),
                    NodeMsg(Message(2, Subj(S_ReHi), AppBody(1)))>> >> >>)

\* What the search command can give back
SearchOutputs ==
    {OutSpawnFail, OutBadJson, BadThread, HiThread}
        \cup {FlatOutput(k) : k \in 0..MaxRows}

\* ------------------------------------------------------------ Messages
\* Messages::len
len == Len(list)

\* Messages::select_next
select_next ==
    IF list /= <<>> /\ selected < len - 1 THEN selected + 1 ELSE selected

\* Messages::select_prev
select_prev == IF selected > 0 THEN selected - 1 ELSE selected

\* Messages::select_first
select_first == 0

\* Messages::select_last: list.len() as u16 - 1, which overflows for an empty
\* list (a panic with overflow checks; this is the wrapped value without).
select_last == (len - 1 + U16) % U16

\* Messages::get_selected
get_selected ==
    IF list /= <<>> /\ selected < len
    THEN [some |-> TRUE, v |-> list[selected + 1]]
    ELSE [some |-> FALSE]

\* ----------------------------------------------------------------- main
Stop(how) == /\ pc' = "done"
             /\ exit' = how

\* refresh_index, had it extended app.messages with the new rows and kept the
\* selection instead of replacing both
MainRefresh_extending ==
    /\ pc = "main" /\ state = "Refresh"
    /\ \E output \in SearchOutputs :
        LET term == IF search_term = <<>> THEN S_TagInbox ELSE search_term
            r == parse_messages(output)
        IN /\ search_term' = term
           /\ IF r.err
              THEN /\ Stop("error:refresh_index")
                   /\ UNCHANGED <<state, list, selected>>
              ELSE /\ list' = list \o Messages_new(r.messages).list
                   /\ selected' = selected
                   /\ state' = "Index"
                   /\ UNCHANGED <<pc, exit>>
    /\ UNCHANGED <<selected_att, overflow_checks, is_input, input, scroll,
                   scroll_max, view_height, key, atts, body_len, only_moves, pure_vars, ev_vars>>

\* refresh_index: a blank search term becomes "tag:inbox"; parse_messages;
\* on Ok the messages are replaced and the state is Index; on Err main
\* returns the error.
MainRefresh ==
    /\ pc = "main" /\ state = "Refresh"
    /\ \E output \in SearchOutputs :
        LET term == IF search_term = <<>> THEN S_TagInbox ELSE search_term
            r == parse_messages(output)
        IN /\ search_term' = term
           /\ IF r.err
              THEN /\ Stop("error:refresh_index")
                   /\ UNCHANGED <<state, list, selected>>
              ELSE /\ list' = Messages_new(r.messages).list
                   /\ selected' = Messages_new(r.messages).selected
                   /\ state' = "Index"
                   /\ UNCHANGED <<pc, exit>>
    /\ UNCHANGED <<selected_att, overflow_checks, is_input, input, scroll,
                   scroll_max, view_height, key, atts, body_len, only_moves, pure_vars, ev_vars>>

\* AppState::Index => show_index: the locals of a new call
MainIndex ==
    /\ pc = "main" /\ state = "Index"
    /\ is_input' = FALSE
    /\ input' = <<>>
    /\ scroll' = 0
    /\ scroll_max' = 0
    /\ view_height' = 0
    /\ key' = ""
    /\ only_moves' = TRUE
    /\ pc' = "idx_draw"
    /\ UNCHANGED <<state, list, selected, selected_att, search_term, exit,
                   overflow_checks, atts, body_len, pure_vars, ev_vars>>

\* AppState::Exit => break
MainExit ==
    /\ pc = "main" /\ state = "Exit"
    /\ Stop("ok")
    /\ UNCHANGED <<state, list, selected, selected_att, search_term,
                   overflow_checks, is_input, input, scroll, scroll_max,
                   view_height, key, atts, body_len, only_moves, pure_vars, ev_vars>>

\* _ => (): for Compose and _EditSubject the dispatch does nothing and the
\* loop comes round to the same state (compose() is called from nowhere).
MainOther ==
    /\ pc = "main" /\ state \in {"Compose", "_EditSubject"}
    /\ UNCHANGED vars

\* ----------------------------------------------------------- show_index
\* a - b in u16: Ok(a - b), or the overflow the build makes of it
U16Sub(a, b) == [overflow |-> a < b, v |-> (a - b + U16) % U16]

\* terminal.draw in show_index, the terminal being h rows high, h in H:
\*   view_height = f.size().height - 5;
\*   if len > view_height { scroll_max = len - view_height }
\*   if selected >= view_height && scroll < scroll_max { scroll += 1 }
IndexDraw(H) ==
    /\ pc = "idx_draw"
    /\ \E h \in H :
        LET vh == U16Sub(h, index_chrome)
            smax == IF len > vh.v THEN len - vh.v ELSE scroll_max
        IN IF vh.overflow /\ overflow_checks
           THEN /\ Stop("panic:view_height")
                /\ UNCHANGED <<view_height, scroll_max, scroll, key>>
           ELSE /\ view_height' = vh.v
                /\ scroll_max' = smax
                /\ scroll' = IF selected >= vh.v /\ scroll < smax
                             THEN scroll + 1 ELSE scroll
                /\ key' = ""
                /\ pc' = "idx_key"
                /\ UNCHANGED exit
    /\ UNCHANGED <<state, list, selected, selected_att, search_term,
                   overflow_checks, is_input, input, atts, body_len, only_moves, pure_vars, ev_vars>>

\* The key read while the search string is edited (is_input)
IndexInputKey(k) ==
    /\ is_input
    /\ CASE k = "\n" ->
              /\ search_term' = input
              /\ input' = <<>>
              /\ state' = "Refresh"
              /\ pc' = "main"
              /\ UNCHANGED is_input
         [] k = "Backspace" ->
              /\ input' = SubSeq(input, 1, Len(input) - 1)
              /\ pc' = "idx_draw"
              /\ UNCHANGED <<search_term, state, is_input>>
         [] k = "Esc" ->
              /\ is_input' = FALSE
              /\ pc' = "idx_draw"
              /\ UNCHANGED <<search_term, state, input>>
         [] k = "a" ->
              /\ Len(input) < MaxInput
              /\ input' = Append(input, k)
              /\ pc' = "idx_draw"
              /\ UNCHANGED <<search_term, state, is_input>>
         [] OTHER ->
              /\ pc' = "idx_draw"
              /\ UNCHANGED <<search_term, state, is_input, input>>
    /\ UNCHANGED <<selected, scroll, exit>>

\* The key read while the index is browsed (!is_input)
IndexBrowseKey(k) ==
    /\ ~is_input
    /\ CASE k \in {"Down", "j"} ->
              /\ selected' = select_next
              /\ pc' = "idx_draw"
              /\ UNCHANGED <<scroll, state, is_input, exit>>
         [] k \in {"Up", "k"} ->
              \* a wrapped selection is followed MaxWrapSteps steps down
              /\ selected <= MaxRows \/ selected > U16 - 1 - MaxWrapSteps
              /\ selected' = select_prev
              /\ scroll' = IF select_prev <= scroll /\ scroll > 0
                           THEN scroll - 1 ELSE scroll
              /\ pc' = "idx_draw"
              /\ UNCHANGED <<state, is_input, exit>>
         [] k = "g" ->
              /\ pc' = "idx_g"
              /\ UNCHANGED <<selected, scroll, state, is_input, exit>>
         [] k = "G" ->
              IF list = <<>> /\ overflow_checks
              THEN /\ Stop("panic:select_last")
                   /\ UNCHANGED <<selected, scroll, state, is_input>>
              ELSE /\ selected' = select_last
                   /\ scroll' = scroll_max
                   /\ pc' = "idx_draw"
                   /\ UNCHANGED <<state, is_input, exit>>
         [] k = "q" ->
              /\ state' = "Exit"
              /\ pc' = "main"
              /\ UNCHANGED <<selected, scroll, is_input, exit>>
         [] k = "\n" ->
              /\ state' = IF list /= <<>> THEN "View" ELSE state
              /\ pc' = "main"
              /\ UNCHANGED <<selected, scroll, is_input, exit>>
         [] k = "m" ->
              /\ state' = "Compose"
              /\ pc' = "main"
              /\ UNCHANGED <<selected, scroll, is_input, exit>>
         [] k = "l" ->
              /\ is_input' = TRUE
              /\ pc' = "idx_draw"
              /\ UNCHANGED <<selected, scroll, state, exit>>
         [] OTHER ->
              /\ pc' = "idx_draw"
              /\ UNCHANGED <<selected, scroll, state, is_input, exit>>
    /\ UNCHANGED <<search_term, input>>

\* match io::stdin().keys().next().unwrap() in show_index
IndexKey ==
    /\ pc = "idx_key"
    /\ \E k \in (IF is_input THEN InputKeys ELSE BrowseKeys) :
        /\ key' = k
        /\ only_moves' = (only_moves /\ ~is_input /\ k \in {"j", "Down", "k", "Up"})
        /\ (IndexInputKey(k) \/ IndexBrowseKey(k))
    /\ UNCHANGED <<list, selected_att, overflow_checks, scroll_max, view_height,
                   atts, body_len, pure_vars, ev_vars>>

\* Key::Char('g') => match io::stdin().keys().next().unwrap(): the second key
\* is read at once, with no draw in between; g g goes to the top, any other
\* key is consumed.
IndexG ==
    /\ pc = "idx_g"
    /\ \E k \in BrowseKeys :
        /\ key' = IF k = "g" THEN "gg" ELSE "g_other"
        /\ only_moves' = FALSE
        /\ IF k = "g"
           THEN /\ scroll' = 0
                /\ selected' = select_first
           ELSE UNCHANGED <<scroll, selected>>
    /\ pc' = "idx_draw"
    /\ UNCHANGED <<state, list, selected_att, search_term, exit, overflow_checks,
                   is_input, input, scroll_max, view_height, atts, body_len,
                   pure_vars, ev_vars>>

\* --------------------------------------------------------- view_selected
\* let headers_len = headers.len() as u16 - 4;
headers_len == headers_count - 4

\* let content_len = body_len + atts.len() as u16;
content_len == body_len + Len(atts)

\* AppState::View => view_selected, up to its loop: the state is set to Index
\* at once; the selected message and its body and attachments are fetched
\* (the Err of either is main's); lynx is whether lynx can be run.
MainView ==
    /\ pc = "main" /\ state = "View"
    /\ state' = "Index"
    /\ \E lynx \in {"ok", "missing"} :
        IF ~get_selected.some
        THEN /\ Stop("error:get_selected")
             /\ UNCHANGED <<atts, body_len, scroll, scroll_max, view_height, key>>
        ELSE LET r == body_attachments(get_selected.v[2].body, lynx)
             IN IF r.err
                THEN /\ Stop("error:body_attachments")
                     /\ UNCHANGED <<atts, body_len, scroll, scroll_max,
                                    view_height, key>>
                ELSE /\ atts' = r.attachments
                     /\ body_len' = LinesCount(r.body)
                     /\ scroll' = 0
                     /\ scroll_max' = 0
                     /\ view_height' = 0
                     /\ key' = ""
                     /\ pc' = "view_draw"
                     /\ UNCHANGED exit
    /\ UNCHANGED <<list, selected, selected_att, search_term, overflow_checks,
                   is_input, input, only_moves, pure_vars, ev_vars>>

\* terminal.draw in view_selected, the terminal being h rows high, h in H:
\*   view_height = f.size().height - headers_len;
\*   if content_len > view_height { scroll_max = content_len - view_height }
ViewDraw(H) ==
    /\ pc = "view_draw"
    /\ \E h \in H :
        LET vh == U16Sub(h, headers_len)
        IN IF vh.overflow /\ overflow_checks
           THEN /\ Stop("panic:view_height")
                /\ UNCHANGED <<view_height, scroll_max, key>>
           ELSE /\ view_height' = vh.v
                /\ scroll_max' = IF content_len > vh.v
                                 THEN content_len - vh.v ELSE scroll_max
                /\ key' = ""
                /\ pc' = "view_key"
                /\ UNCHANGED exit
    /\ UNCHANGED <<state, list, selected, selected_att, search_term,
                   overflow_checks, is_input, input, scroll, atts, body_len,
                   only_moves, pure_vars, ev_vars>>

\* match io::stdin().keys().next().unwrap() in view_selected. viewer is how
\* show_attachment (notmuch show --format=raw, then the viewer) ends.
ViewKey ==
    /\ pc = "view_key"
    /\ \E k \in ViewKeys, viewer \in {"ok", "fail"} :
        /\ key' = k
        /\ CASE k \in {"q", "i"} ->
                  /\ pc' = "main"
                  /\ UNCHANGED <<scroll, selected_att, exit>>
             [] k \in {"j", "Down"} ->
                  /\ IF scroll < scroll_max
                     THEN scroll' = scroll + 1 /\ UNCHANGED selected_att
                     ELSE IF selected_att < Len(atts) - 1
                     THEN selected_att' = selected_att + 1 /\ UNCHANGED scroll
                     ELSE UNCHANGED <<scroll, selected_att>>
                  /\ pc' = "view_draw"
                  /\ UNCHANGED exit
             [] k \in {"k", "Up"} ->
                  /\ IF selected_att >= 0
                     THEN selected_att' = selected_att - 1 /\ UNCHANGED scroll
                     ELSE IF scroll > 0
                     THEN scroll' = scroll - 1 /\ UNCHANGED selected_att
                     ELSE UNCHANGED <<scroll, selected_att>>
                  /\ pc' = "view_draw"
                  /\ UNCHANGED exit
             [] k = "g" ->
                  /\ pc' = "view_g"
                  /\ UNCHANGED <<scroll, selected_att, exit>>
             [] k = "G" ->
                  /\ scroll' = scroll_max
                  /\ pc' = "view_draw"
                  /\ UNCHANGED <<selected_att, exit>>
             [] k = "\n" ->
                  /\ IF selected_att < 0
                     THEN pc' = "view_draw" /\ UNCHANGED exit
                     ELSE IF selected_att >= Len(atts)
                     THEN Stop("panic:atts_index")
                     ELSE IF viewer = "fail"
                     THEN Stop("error:show_attachment")
                     ELSE pc' = "view_draw" /\ UNCHANGED exit
                  /\ UNCHANGED <<scroll, selected_att>>
             [] OTHER ->
                  /\ pc' = "view_draw"
                  /\ UNCHANGED <<scroll, selected_att, exit>>
    /\ UNCHANGED <<state, list, selected, search_term, overflow_checks, is_input,
                   input, scroll_max, view_height, atts, body_len, only_moves, pure_vars, ev_vars>>

\* The second key after g in view_selected, had g g gone to the top as it
\* does in show_index (scroll = 0 and select_first)
ViewG_select_first ==
    /\ pc = "view_g"
    /\ \E k \in ViewKeys :
        /\ key' = IF k = "g" THEN "gg" ELSE "g_other"
        /\ scroll' = IF k = "g" THEN 0 ELSE scroll
        /\ selected' = IF k = "g" THEN select_first ELSE selected
    /\ pc' = "view_draw"
    /\ UNCHANGED <<state, list, selected_att, search_term, exit,
                   overflow_checks, is_input, input, scroll_max, view_height,
                   atts, body_len, only_moves, pure_vars, ev_vars>>

\* Key::Char('g') => match io::stdin().keys().next().unwrap() in view_selected
ViewG ==
    /\ pc = "view_g"
    /\ \E k \in ViewKeys :
        /\ key' = IF k = "g" THEN "gg" ELSE "g_other"
        /\ scroll' = IF k = "g" THEN 0 ELSE scroll
    /\ pc' = "view_draw"
    /\ UNCHANGED <<state, list, selected, selected_att, search_term, exit,
                   overflow_checks, is_input, input, scroll_max, view_height,
                   atts, body_len, only_moves, pure_vars, ev_vars>>

\* ------------------------------------------------------------ the program
PureIdle == p_in = [op |-> "none"] /\ p_out = [done |-> FALSE]

\* App::new, and main before its loop
AppInit ==
    /\ state = "Refresh"
    /\ list = Messages_new(<<>>).list
    /\ selected = Messages_new(<<>>).selected
    /\ selected_att = -1
    /\ search_term = S_TagInbox
    /\ pc = "main"
    /\ exit = "running"
    /\ is_input = FALSE
    /\ input = <<>>
    /\ scroll = 0
    /\ scroll_max = 0
    /\ view_height = 0
    /\ key = ""
    /\ only_moves = TRUE
    /\ atts = <<>>
    /\ body_len = 0

\* No Events has been constructed (main.rs does not use util::event).
EvIdle ==
    /\ stdin = <<>> /\ eof = FALSE /\ chan = <<>> /\ rx = "none"
    /\ kpc = "none" /\ kb_key = "" /\ tpc = "none" /\ ticks = 0
    /\ ignore_exit_key = FALSE /\ ignore_compose_key = FALSE
    /\ exit_flag = FALSE /\ keys_read = <<>> /\ received = <<>>

Init ==
    /\ AppInit
    /\ overflow_checks \in BOOLEAN
    /\ PureIdle
    /\ EvIdle

\* One step of main, the terminal's height being drawn from H at each draw
NextOn(H) ==
    \/ MainRefresh
    \/ MainIndex
    \/ MainView
    \/ MainExit
    \/ MainOther
    \/ IndexDraw(H)
    \/ IndexKey
    \/ IndexG
    \/ ViewDraw(H)
    \/ ViewKey
    \/ ViewG

Next == NextOn(Heights)

Spec == Init /\ [][Next]_vars

\* The program on a terminal that is never lower than index_chrome + 1 rows
NextRoomy == NextOn(RoomyHeights)

SpecRoomy == Init /\ [][NextRoomy]_vars

\* The program on a terminal of index_chrome + 1 rows that is never resized
NextSteady == NextOn({index_chrome + 1})

SpecSteady == Init /\ [][NextSteady]_vars

\* main is the only thread and runs on while it can take a step.
FairSpec == SpecRoomy /\ WF_vars(NextRoomy)

\* ------------------------------------------- the pure functions, applied
\* The inputs: a forest for the flattener; a search output for the parser and
\* for the refresh pipeline (parse_messages, then Messages::new).
ForestInputs ==
    UNION {{[op |-> "build_messages", parent |-> p, scheme |-> k] :
                p \in ParentArrays(n), k \in 0..(Len(SubjectList) - 1)} :
           n \in 0..MaxNodes}

OutputInputs(op) ==
    UNION {{[op |-> op, out |-> "json", parent |-> p, scheme |-> k,
             group |-> g, bare |-> b, badAt |-> bad] :
                p \in ParentArrays(n), k \in {0, 2}, g \in {"each", "one"},
                b \in BOOLEAN, bad \in 0..n} :
           n \in 0..MaxNodes}
      \cup {[op |-> op, out |-> o, parent |-> <<>>, scheme |-> 0, group |-> "each",
             bare |-> FALSE, badAt |-> 0] : o \in {"spawn_fail", "bad_json"}}

\* The inputs of body_attachments: a body tree, and whether lynx can be run
BodyInputs ==
    UNION {{[op |-> "body_attachments", parent |-> p, kinds |-> k, named |-> f,
             lynx |-> l] :
                p \in ParentArrays(n), k \in [1..n -> LeafKinds],
                f \in SUBSET (1..n), l \in {"ok", "missing"}} :
           n \in 0..MaxParts}

PureInputs ==
    ForestInputs \cup OutputInputs("parse_messages") \cup OutputInputs("refresh_index")
        \cup BodyInputs

\* The search output an input stands for
OutputOf(in) ==
    CASE in.out = "spawn_fail" -> OutSpawnFail
      [] in.out = "bad_json" -> OutBadJson
      [] OTHER -> OutJson(ThreadSetOf(in.parent, in.scheme, in.group, in.bare, in.badAt))

PureInit ==
    /\ AppInit
    /\ overflow_checks = FALSE
    /\ p_in \in PureInputs
    /\ p_out = [done |-> FALSE]
    /\ EvIdle

\* Messages::build_messages(forest, "")
PureFlatten ==
    /\ p_in.op = "build_messages" /\ ~p_out.done
    /\ p_out' = [done |-> TRUE,
                 rows |-> build_messages(ForestOf(p_in.parent, p_in.scheme), <<>>)]
    /\ UNCHANGED <<p_in, app_vars, ev_vars>>

\* message::parse_messages
PureParse ==
    /\ p_in.op = "parse_messages" /\ ~p_out.done
    /\ p_out' = [done |-> TRUE, res |-> parse_messages(OutputOf(p_in))]
    /\ UNCHANGED <<p_in, app_vars, ev_vars>>

\* refresh_index: parse_messages(..)?, then Messages::new(&messages)
PureRefresh ==
    /\ p_in.op = "refresh_index" /\ ~p_out.done
    /\ LET r == parse_messages(OutputOf(p_in))
       IN p_out' = [done |-> TRUE, err |-> r.err,
                    rows |-> IF r.err THEN <<>> ELSE Messages_new(r.messages).list]
    /\ UNCHANGED <<p_in, app_vars, ev_vars>>

\* message::body_attachments
PureBody ==
    /\ p_in.op = "body_attachments" /\ ~p_out.done
    /\ p_out' = [done |-> TRUE,
                 res |-> body_attachments(BodysOf(p_in.parent, p_in.kinds, p_in.named),
                                          p_in.lynx)]
    /\ UNCHANGED <<p_in, app_vars, ev_vars>>

PureNext ==
    \/ PureFlatten
    \/ PureParse
    \/ PureRefresh
    \/ PureBody

SpecPure == PureInit /\ [][PureNext]_vars

\* ------------------------------------------------------- util::event
\* enum Event<Key>
EvInput(k) == [tag |-> "Input", key |-> k]
EvTick == [tag |-> "Tick"]

\* Config::default(): exit_key 'q', compose_key 'e'
Config_default == [exit_key |-> "q", compose_key |-> "e"]

\* What stdin.keys() yields: the keys q, e and a (any other key), and "err",
\* an Err item (it is skipped).
StdinItems == {"q", "e", "a", "err"}

\* What the terminal hands over: every sequence of at most MaxKeys items
StdinInputs == UNION {[1..n -> StdinItems] : n \in 0..MaxKeys}

\* mpsc: tx.send(e) puts e behind what the channel holds
ChanSend_in_front(q, e) == <<e>> \o q

ChanSend(q, e) == Append(q, e)

\* Events::with_config(Config::default()): the channel, the three flags, the
\* two threads spawned
EvInit ==
    /\ stdin \in StdinInputs /\ eof \in BOOLEAN
    /\ chan = <<>> /\ rx = "open"
    /\ kpc = "read" /\ kb_key = "" /\ tpc = "load" /\ ticks = 0
    /\ ignore_exit_key = FALSE /\ ignore_compose_key = FALSE
    /\ exit_flag = FALSE /\ keys_read = <<>> /\ received = <<>>

\* input thread, `for evt in stdin.keys()`: an Err item is skipped; a key is
\* sent as Event::Input, and a failed send (the receiver is gone) breaks;
\* the end of stdin ends the loop.
KbRead ==
    /\ kpc = "read"
    /\ IF stdin = <<>>
       THEN /\ eof
            /\ kpc' = "store"
            /\ UNCHANGED <<stdin, chan, kb_key, keys_read>>
       ELSE /\ stdin' = Tail(stdin)
            /\ IF Head(stdin) = "err"
               THEN UNCHANGED <<chan, kb_key, keys_read, kpc>>
               ELSE /\ kb_key' = Head(stdin)
                    /\ keys_read' = Append(keys_read, Head(stdin))
                    /\ IF rx = "dropped"
                       THEN kpc' = "store" /\ UNCHANGED chan
                       ELSE /\ chan' = ChanSend(chan, EvInput(Head(stdin)))
                            /\ kpc' = "check_exit"
    /\ UNCHANGED <<eof, rx, tpc, ticks, ignore_exit_key, ignore_compose_key,
                   exit_flag, received, app_vars, pure_vars>>

\* if !ignore_exit_key.load(Relaxed) && key == config.exit_key { break }
KbCheckExit ==
    /\ kpc = "check_exit"
    /\ kpc' = IF ~ignore_exit_key /\ kb_key = Config_default.exit_key
              THEN "store" ELSE "check_compose"
    /\ UNCHANGED <<stdin, eof, chan, rx, kb_key, tpc, ticks, ignore_exit_key,
                   ignore_compose_key, exit_flag, keys_read, received,
                   app_vars, pure_vars>>

\* if !ignore_compose_key.load(Relaxed) && key == config.compose_key { break }
KbCheckCompose ==
    /\ kpc = "check_compose"
    /\ kpc' = IF ~ignore_compose_key /\ kb_key = Config_default.compose_key
              THEN "store" ELSE "read"
    /\ UNCHANGED <<stdin, eof, chan, rx, kb_key, tpc, ticks, ignore_exit_key,
                   ignore_compose_key, exit_flag, keys_read, received,
                   app_vars, pure_vars>>

\* exit.store(true, Relaxed), and the input thread ends
KbStore ==
    /\ kpc = "store"
    /\ exit_flag' = TRUE
    /\ kpc' = "done"
    /\ UNCHANGED <<stdin, eof, chan, rx, kb_key, tpc, ticks, ignore_exit_key,
                   ignore_compose_key, keys_read, received, app_vars, pure_vars>>

\* tick thread: if is_exit.load(Relaxed) { break }
TickLoad ==
    /\ tpc = "load"
    /\ tpc' = IF exit_flag THEN "done" ELSE "send"
    /\ UNCHANGED <<stdin, eof, chan, rx, kpc, kb_key, ticks, ignore_exit_key,
                   ignore_compose_key, exit_flag, keys_read, received,
                   app_vars, pure_vars>>

\* tick thread: tx.send(Event::Tick).unwrap(); thread::sleep(tick_rate)
TickSend ==
    /\ tpc = "send"
    /\ IF rx = "dropped"
       THEN tpc' = "panicked" /\ UNCHANGED <<chan, ticks>>
       ELSE /\ ticks < MaxTicks \/ exit_flag
            /\ chan' = ChanSend(chan, EvTick)
            /\ ticks' = ticks + 1
            /\ tpc' = "load"
    /\ UNCHANGED <<stdin, eof, rx, kpc, kb_key, ignore_exit_key,
                   ignore_compose_key, exit_flag, keys_read, received,
                   app_vars, pure_vars>>

\* Both threads have ended: every Sender is dropped.
SendersGone == kpc = "done" /\ tpc \in {"done", "panicked"}

\* Events::next: rx.recv() returns the event at the head of the channel, or
\* Err(RecvError) once the channel is empty and every Sender is dropped.
EvNext ==
    /\ rx = "open"
    /\ IF chan /= <<>>
       THEN /\ received' = Append(received, Head(chan))
            /\ chan' = Tail(chan)
            /\ UNCHANGED rx
       ELSE /\ SendersGone
            /\ rx' = "closed"
            /\ UNCHANGED <<chan, received>>
    /\ UNCHANGED <<stdin, eof, kpc, kb_key, tpc, ticks, ignore_exit_key,
                   ignore_compose_key, exit_flag, keys_read, app_vars, pure_vars>>

\* Events::disable_exit_key
EvDisableExitKey ==
    /\ rx = "open" /\ ~ignore_exit_key
    /\ ignore_exit_key' = TRUE
    /\ UNCHANGED <<stdin, eof, chan, rx, kpc, kb_key, tpc, ticks,
                   ignore_compose_key, exit_flag, keys_read, received,
                   app_vars, pure_vars>>

\* Events::enable_exit_key
EvEnableExitKey ==
    /\ rx = "open" /\ ignore_exit_key
    /\ ignore_exit_key' = FALSE
    /\ UNCHANGED <<stdin, eof, chan, rx, kpc, kb_key, tpc, ticks,
                   ignore_compose_key, exit_flag, keys_read, received,
                   app_vars, pure_vars>>

\* The Events value is dropped: the Receiver goes, with what the channel held.
EvDrop ==
    /\ rx \in {"open", "closed"}
    /\ rx' = "dropped"
    /\ chan' = <<>>
    /\ UNCHANGED <<stdin, eof, kpc, kb_key, tpc, ticks, ignore_exit_key,
                   ignore_compose_key, exit_flag, keys_read, received,
                   app_vars, pure_vars>>

EventsInit ==
    /\ AppInit
    /\ overflow_checks = FALSE
    /\ PureIdle
    /\ EvInit

EventsNext ==
    \/ KbRead
    \/ KbCheckExit
    \/ KbCheckCompose
    \/ KbStore
    \/ TickLoad
    \/ TickSend
    \/ EvNext
    \/ EvDisableExitKey
    \/ EvEnableExitKey
    \/ EvDrop

SpecEvents == EventsInit /\ [][EventsNext]_vars

\* The tick thread is scheduled again and again while it can take a step.
FairEvents == SpecEvents /\ WF_vars(TickLoad) /\ WF_vars(TickSend)

\* =============================================================== claims
\* The index loop has drawn and waits for a key.
IndexDrawn == exit = "running" /\ pc \in {"idx_key", "idx_g"}
\* The index loop runs.
InIndex == exit = "running" /\ pc \in {"idx_draw", "idx_key", "idx_g"}

\* C1: in the index, 0 <= selected < row_count whenever there are rows, and
\* selected = 0 whenever there are none (also after G on an empty list).
C1_SelectedInRange ==
    InIndex =>
        /\ (len > 0 => (0 <= selected /\ selected < len))
        /\ (len = 0 => selected = 0)

\* C2: in the index, once drawn, the selected row is inside the window:
\* scroll <= selected and selected < scroll + viewport_height. Stated where
\* there are rows (SpecRoomy: the viewport always has a line).
C2_SelectedInWindow ==
    (IndexDrawn /\ len > 0) =>
        (scroll <= selected /\ selected < scroll + view_height)

\* C3: in the index, while only move-next and move-previous keys are read and
\* the terminal changes its height, scroll stays within
\* [0, max(0, row_count - viewport_height)], viewport_height being the height
\* of the latest draw.
C3_ScrollWithinMax ==
    (IndexDrawn /\ only_moves) =>
        (0 <= scroll /\ scroll <= Max(0, len - view_height))

\* A title as a row shows it: filled with '-' up to title_len
Padded(t) == t \o Repeat("-", title_len - Len(t))
\* Two spaces per unit of depth
Indent(d) == Repeat(" ", 2 * d)

\* C4: parse-then-flatten keeps the reply nesting in the rows: for a root "Hi"
\* with one reply "Re: Hi" the index has the rows "Hi" and "  Re: Hi", and in
\* general every row's title is indented by two spaces per unit of the depth
\* of its message.
C4_RepliesIndented ==
    (p_in.op = "refresh_index" /\ p_out.done /\ ~p_out.err) =>
        /\ (p_in.parent = <<0, 1>> /\ p_in.scheme = 0) =>
              /\ Len(p_out.rows) = 2
              /\ p_out.rows[1][1].title = Padded(S_Hi)
              /\ p_out.rows[2][1].title = Padded(<<" ", " ">> \o S_ReHi)
        /\ \A r \in 1..Len(p_out.rows) :
              p_out.rows[r][1].title =
                  Padded(Take(Indent(Level(p_in.parent, p_out.rows[r][2].id))
                                  \o Subject(p_out.rows[r][2]), title_len))

\* C5: for a well-formed input, parse_messages returns as many top-level
\* Messages as the input has thread-sets, and the depth of every Message is its
\* nesting level. Stated for inputs whose thread-sets hold one thread each.
C5_TopLevelCountAndDepth ==
    (p_in.op = "parse_messages" /\ p_out.done /\ p_in.out = "json"
        /\ p_in.badAt = 0 /\ p_in.group = "each") =>
        /\ ~p_out.res.err
        /\ Len(p_out.res.messages) = Len(OutputOf(p_in).threadset)
        /\ \A k \in 1..Len(p_out.res.messages) :
              p_out.res.messages[k].depth =
                  Level(p_in.parent, p_out.res.messages[k].id)

\* The flattener has been applied to the forest of p_in.
FlattenDone == p_in.op = "build_messages" /\ p_out.done
\* The message ids of the rows, in row order
RowIds == [r \in 1..Len(p_out.rows) |-> p_out.rows[r][2].id]
\* The row of message i
Pos(i) == CHOOSE r \in 1..Len(p_out.rows) : RowIds[r] = i
\* Message i and its descendants
Subtree(p, i) == {i} \cup {j \in DOMAIN p : IsAncestor(p, i, j)}

\* C6: build_messages returns one row per message of the forest, in
\* pre-order: a message's row comes before the rows of its descendants, the
\* rows of a subtree are contiguous, and siblings keep their input order.
C6_FlattenPreOrder ==
    FlattenDone =>
        LET p == p_in.parent
            n == Len(p)
        IN /\ Len(p_out.rows) = n
           /\ \A i \in 1..n : Cardinality({r \in 1..Len(p_out.rows) : RowIds[r] = i}) = 1
           /\ \A i, j \in 1..n : IsAncestor(p, i, j) => Pos(i) < Pos(j)
           /\ \A i \in 1..n :
                 {Pos(j) : j \in Subtree(p, i)}
                    = Pos(i)..(Pos(i) + Cardinality(Subtree(p, i)) - 1)
           /\ \A i, j \in 1..n : (p[i] = p[j] /\ i < j) => Pos(i) < Pos(j)

\* C6 witness: two roots, the first with a reply: the reply's row comes
\* between the rows of the roots.
C6_Witness == FlattenDone /\ p_in.parent = <<0, 0, 1>> /\ RowIds = <<1, 3, 2>>

\* C7: from Compose the machine always gets back to Refresh: it never stays
\* in Compose for ever.
C7_ComposeLeadsToRefresh == (state = "Compose") ~> (state = "Refresh")

\* C8: a Refresh that fails (the search cannot be run, or its output does not
\* parse) leaves the application running with the list and the selection it
\* had. Stated for a Refresh that follows a submitted search string.
C8_FailedRefreshKeepsRunning ==
    [][(pc = "main" /\ state = "Refresh" /\ key = "\n" /\ state' /= "Index") =>
          (exit' = "running" /\ list' = list /\ selected' = selected)]_vars

\* C9: in the view, Enter on a positioned attachment never ends the
\* application, whether fetching and showing the attachment fails or not:
\* the view loop draws again, on the same message.
C9_ViewerFailureNotFatal ==
    [][(pc = "view_key" /\ key' = "\n"
            /\ 0 <= selected_att /\ selected_att < Len(atts)) =>
          (exit' = "running" /\ pc' = "view_draw" /\ atts' = atts
              /\ selected' = selected)]_vars

\* C10: in the index, g g sets selected and scroll to 0; g and then another
\* key leaves selected and scroll as they were, also after the draw that
\* follows, has no other effect, and leaves the gesture disarmed. The draw
\* is one at the height of the draw before it (no resize in between).
C10_GoToTopGesture ==
    [][/\ (pc = "idx_g" /\ key' = "gg") => (selected' = 0 /\ scroll' = 0)
       /\ (pc = "idx_draw" /\ key = "gg" /\ view_height' = view_height) =>
             (selected' = 0 /\ scroll' = 0)
       /\ (pc = "idx_g" /\ key' = "g_other") =>
             /\ selected' = selected /\ scroll' = scroll
             /\ state' = state /\ exit' = exit /\ is_input' = is_input
             /\ pc' = "idx_draw"
       /\ (pc = "idx_draw" /\ key = "g_other" /\ view_height' = view_height) =>
             /\ selected' = selected /\ scroll' = scroll
             /\ pc' = "idx_key"]_vars

\* C11: move-next and move-previous are clamped, with no wraparound: while
\* the index is browsed, move-next (j, Down) on the last row and
\* move-previous (k) on row 0 leave selected as it is, and move-next on an
\* empty list leaves selected = 0.
C11_MovesClamped ==
    [][(pc = "idx_key" /\ ~is_input) =>
          /\ (key' \in {"j", "Down"} /\ len > 0 /\ selected = len - 1) =>
                selected' = selected
          /\ (key' = "k" /\ selected = 0) => selected' = selected
          /\ (key' \in {"j", "Down"} /\ len = 0) => selected' = 0]_vars

\* The part of C11 about the two ends of a non-empty list, and move-next on
\* an empty list read as leaving selected unchanged.
C11_EndsUnchanged ==
    [][(pc = "idx_key" /\ ~is_input) =>
          /\ (key' \in {"j", "Down"} /\ (len = 0 \/ selected = len - 1)) =>
                selected' = selected
          /\ (key' = "k" /\ selected = 0) => selected' = selected]_vars

\* C12: the dispatch of the index while it is browsed: Enter on a non-empty
\* list moves to View; Enter on an empty list changes nothing and stays in
\* Index; View is never entered with an empty list and the missing selected
\* message is never an error; m moves to Compose; q moves to Exit, and main
\* then returns; any other key, also a key that follows g, stays in Index
\* with the application running.
C12_IndexDispatch ==
    [][/\ (pc = "idx_key" /\ ~is_input) =>
             /\ (key' = "\n" /\ len > 0) => (state' = "View" /\ pc' = "main")
             /\ (key' = "\n" /\ len = 0) =>
                   /\ state' = "Index" /\ exit' = "running"
                   /\ list' = list /\ selected' = selected
             /\ key' = "m" => (state' = "Compose" /\ pc' = "main")
             /\ key' = "q" => (state' = "Exit" /\ pc' = "main")
             /\ key' \notin {"\n", "m", "q"} =>
                   (state' = "Index" /\ exit' = "running")
       /\ pc = "idx_g" => (state' = "Index" /\ exit' = "running")
       /\ state' = "View" => len' > 0
       /\ exit' /= "error:get_selected"
       /\ (pc = "main" /\ state = "Exit") => (pc' = "done" /\ exit' = "ok")]_vars

BodyDone == p_in.op = "body_attachments" /\ p_out.done

\* C15: body_attachments on a body of exactly one text/plain leaf without
\* filename returns the leaf's content as the text and no attachment; on a
\* body of exactly one text/html leaf without filename it returns the
\* conversion of the content as the text and exactly one attachment, Html.
C15_SingleLeafBody ==
    (BodyDone /\ Len(p_in.parent) = 1 /\ p_in.named = {}) =>
       /\ p_in.kinds[1] \in {"plain", "empty"} =>
             /\ ~p_out.res.err
             /\ p_out.res.body = (IF p_in.kinds[1] = "plain" THEN S_Text ELSE <<>>)
             /\ p_out.res.attachments = <<>>
       /\ (p_in.kinds[1] = "html" /\ ~p_out.res.err) =>
             /\ p_out.res.body = LynxDump(S_Html)
             /\ p_out.res.attachments = <<AttHtml(S_Html)>>

\* The content type of part i of the body tree of p_in
PartType(i) ==
    IF ChildrenOf(p_in.parent, i) /= <<>> THEN "multipart/mixed"
    ELSE CASE p_in.kinds[i] \in {"plain", "empty"} -> "text/plain"
           [] p_in.kinds[i] = "html" -> "text/html"
           [] OTHER -> "image/png"

\* C16: in the attachment list body_attachments returns, every part that
\* carries a filename, leaf or branch, at any depth, of any content type, is
\* a File entry exactly once, with the part's id, filename and content type,
\* and there is no File entry for any other part.
C16_NamedPartsOnce ==
    (BodyDone /\ ~p_out.res.err) =>
       LET got == p_out.res.attachments
           files == {a \in 1..Len(got) : got[a].tag = "File"}
       IN /\ \A i \in p_in.named :
                Cardinality({a \in files : got[a].id = i}) = 1
          /\ \A a \in files :
                /\ got[a].id \in p_in.named
                /\ got[a].filename = FileName(got[a].id)
                /\ got[a].mime = PartType(got[a].id)

\* C16 witness: a named branch holding a named text leaf and a named image
\* has been walked.
C16_Witness ==
    /\ BodyDone /\ ~p_out.res.err
    /\ p_in.parent = <<0, 1, 1>> /\ p_in.named = {1, 2, 3}
    /\ p_in.kinds[2] = "plain" /\ p_in.kinds[3] = "none"
    /\ Len(p_out.res.attachments) = 3

\* The keys of the Input events of a sequence of events, in order
InputKeysOf(events) ==
    LET ins == SelectSeq(events, LAMBDA e : e.tag = "Input")
    IN [i \in 1..Len(ins) |-> ins[i].key]

\* C17: keyboard events are delivered in the order the terminal produced
\* them, without loss or duplication: while the receiver lives, the keys of
\* the Input events Events::next has returned, followed by those still in the
\* channel, are the keys the input thread has read, up to and including the
\* key it stopped at, whatever the ticker thread did in between.
C17_KeysInOrder ==
    rx \in {"open", "closed"} =>
       InputKeysOf(received) \o InputKeysOf(chan) = keys_read

\* C17 witness: the input thread has read a, a, q and stopped at q, ticks were
\* sent in between, and Events::next has returned all of it.
C17_Witness ==
    /\ rx = "open" /\ kpc = "done" /\ chan = <<>>
    /\ keys_read = <<"a", "a", "q">>
    /\ InputKeysOf(received) = keys_read
    /\ Len(received) = Len(keys_read) + MaxTicks
    /\ received[2].tag = "Tick"

\* C18: with the default configuration the input thread runs until the exit
\* key: after a key other than the exit key it goes on to read the next key,
\* and no such key makes it stop or set the shared exit flag.
C18_OnlyExitKeyStops ==
    [][(kpc \in {"check_exit", "check_compose"}
            /\ kb_key /= Config_default.exit_key) =>
          (kpc' \notin {"store", "done"} /\ exit_flag' = exit_flag)]_vars

\* The view loop has drawn and waits for a key.
ViewDrawn == exit = "running" /\ pc \in {"view_key", "view_g"}

\* C19: in the view the attachment position extends the scroll position: an
\* attachment is positioned (selected_att >= 0) only while scroll =
\* scroll_max, also after g g and G; j raises scroll while scroll <
\* scroll_max and only then selected_att; k lowers selected_att while it is
\* >= 0 and only then scroll.
C19_AttachmentsExtendScroll ==
    [][/\ (ViewDrawn' /\ selected_att' >= 0) => scroll' = scroll_max'
       /\ (pc = "view_key" /\ key' \in {"j", "Down"}) =>
             IF scroll < scroll_max
             THEN scroll' = scroll + 1 /\ selected_att' = selected_att
             ELSE /\ scroll' = scroll
                  /\ selected_att' \in {selected_att, selected_att + 1}
       /\ (pc = "view_key" /\ key' \in {"k", "Up"}) =>
             IF selected_att >= 0
             THEN selected_att' = selected_att - 1 /\ scroll' = scroll
             ELSE /\ selected_att' = selected_att
                  /\ scroll' \in {scroll, scroll - 1}]_vars

\* C20: for a body tree with a non-empty non-HTML text leaf at the top level,
\* body_attachments never runs the HTML-to-text conversion, also not for
\* nested branches that contribute no text, and does not fail.
C20_NoConversionWithPlainText ==
    (BodyDone /\ \E i \in DOMAIN p_in.parent :
                    /\ p_in.parent[i] = 0 /\ p_in.kinds[i] = "plain"
                    /\ ChildrenOf(p_in.parent, i) = <<>>) =>
       (p_out.res.calls = 0 /\ ~p_out.res.err)

\* The text/html leaves of the body tree of p_in
HtmlLeaves ==
    {i \in DOMAIN p_in.parent :
        ChildrenOf(p_in.parent, i) = <<>> /\ p_in.kinds[i] = "html"}

RECURSIVE Copies(_, _)
\* n copies of the string s, one after the other
Copies(s, n) == IF n = 0 THEN <<>> ELSE s \o Copies(s, n - 1)

\* C21: HTML is gathered per message: for a body tree with a text/html leaf,
\* at any depth, body_attachments returns exactly one Html entry, holding the
\* contents of all text/html leaves of the message one after the other, and
\* for a tree without one it returns no Html entry.
C21_OneHtmlPerMessage ==
    (BodyDone /\ ~p_out.res.err) =>
       LET got == p_out.res.attachments
           htmls == SelectSeq(got, LAMBDA a : a.tag = "Html")
       IN IF HtmlLeaves = {} THEN htmls = <<>>
          ELSE htmls = <<AttHtml(Copies(S_Html, Cardinality(HtmlLeaves)))>>

\* The tick thread has ended.
TickerStopped == tpc \in {"done", "panicked"}

\* C22: once the input thread has set the exit flag the tick thread ends
\* (it being scheduled fairly), and sends at most one Tick more: a Tick sent
\* with the flag set brings the thread to its load of the flag, from where
\* it sends nothing more; and while the flag is unset the tick thread does
\* not end.
C22_TickerStopsOnFlag ==
    /\ exit_flag ~> TickerStopped
    /\ [][/\ (exit_flag /\ ticks' > ticks) => tpc' = "load"
          /\ (exit_flag /\ tpc = "load") => tpc' \in {"load", "done"}
          /\ (~exit_flag' /\ ~TickerStopped) => ~TickerStopped']_vars

\* C23: q in the view returns to Index with the application running, and no
\* step of a view, from its opening to its end (drawing, scrolling,
\* positioning an attachment, showing one), changes the list, the selected
\* row or the search string: they are what they were when the message was
\* opened.
C23_ViewLeavesIndexAlone ==
    [][/\ ((pc = "main" /\ state = "View")
              \/ pc \in {"view_draw", "view_key", "view_g"}) =>
             (list' = list /\ selected' = selected /\ search_term' = search_term)
       /\ (pc = "view_key" /\ key' = "q") =>
             (state' = "Index" /\ pc' = "main" /\ exit' = "running")]_vars

\* C23 witness: the message in row 1 was opened, scrolled to its end, an
\* attachment positioned, g g pressed, and the view closed with q.
C23_Witness ==
    /\ pc = "main" /\ state = "Index" /\ key = "q" /\ exit = "running"
    /\ selected = 1 /\ len = 2
    /\ selected_att = 0 /\ scroll = 0 /\ scroll_max > 0

\* C24: whenever a message is viewed, across any sequence of opening,
\* navigating and closing messages, -1 <= selected_att < the number of
\* attachments of the message viewed, and Enter in the view never indexes
\* the attachments out of bounds.
C24_AttachmentPositionInRange ==
    /\ (exit = "running" /\ pc \in {"view_draw", "view_key", "view_g"}) =>
          (-1 <= selected_att /\ selected_att < Len(atts))
    /\ exit /= "panic:atts_index"

\* C25: the u16 viewport arithmetic never underflows, whatever height the
\* terminal reports, heights below 5 included: neither render panics on
\* height - 5 or height - headers_len, and none leaves a wrapped
\* view_height.
C25_ViewHeightNoUnderflow ==
    /\ exit /= "panic:view_height"
    /\ view_height <= MaxHeight

====
